---- MODULE Spec2Model ----
(***************************************************************************)
(* The hashtag pipeline of dataflow/hashtags (package main): counting of   *)
(* raw tags, the count threshold and embedding call, and the clustering    *)
(* combiner clusterFn (CreateAccumulator, AddInput, MergeAccumulators,     *)
(* ExtractOutput), the topic persister summaryHashTagsFn and the teardown  *)
(* call (Teardown, teardownFn, runTeardownTask), and the scan              *)
(* getHashtagsFn that feeds them.                                          *)
(*                                                                         *)
(* Numbers.  Vector components are fixed-point tenths and a dot product is *)
(* in hundredths, so distanceThreshold (0.85) is 85.  The arithmetic is    *)
(* exact: float32 rounding of the products and sums is not modelled.       *)
(* Counts are int64 in the source; they stay far below 2^63 here.          *)
(* Go indexes slices from 0, sequences here start at 1: findClosest        *)
(* returns the Go index, and Groups[target + 1] is the group it names.     *)
(***************************************************************************)
EXTENDS Integers, Sequences, FiniteSets, TLC

\* const distanceThreshold = 0.85, in hundredths.
distanceThreshold == 85

\* const tagCountThreshold = 5.
tagCountThreshold == 5

\* const dimensionality = 768, the length of an embedding vector; the
\* vectors here have 2 components.
dimensionality == 2

\* Tags handed to the combiner in one run.
MaxTags == 3

\* Parallel accumulators (bundles) of the combiner.
MaxShards == 2

\* Distinct tag strings in the scanned corpus.
MaxNames == 2

\* Occurrences of one tag in the scanned corpus (counting stage).
MaxOccur == 4

\* The largest aggregate count handed to the filter (embedding stage).
MaxCount == 6

\* Times the engine runs ProcessElement on one element (bundle retries).
MaxAttempts == 2

\* The embedded tags (count, vector in tenths) the combiner may be handed.
\* Every count has passed the filter (>= tagCountThreshold).  Dot products
\* among the vectors: 100, 90, 85 (exactly the threshold), 0, -20, -90, -99;
\* <<9, 9>> scores 90 with both <<10, 0>> and <<0, 10>>.
TagKinds ==
    { [Count |-> 5, Vector |-> <<10, 0>>],
      [Count |-> 5, Vector |-> <<0, 10>>],
      [Count |-> 6, Vector |-> <<9, 9>>],
      [Count |-> 5, Vector |-> <<-9, -2>>] }

TagNames == 1 .. MaxNames

VARIABLES
    \* beam.ParDo(mapFn) and beam.CombinePerKey(combineFn)
    scanned,    \* the corpus: tag -> number of occurrences the scan emits
    raw,        \* tag -> occurrences not yet passed to mapFn
    partial,    \* tag -> the partial sums held for it: value -> how many
    summed,     \* tag -> the count output for it (0: no output yet)
    \* beam.ParDo(&mapHashTagCount{})
    elem,       \* tag -> "pending" | "done" | "failed": its (tag, count) element
    attempts,   \* tag -> times ProcessElement ran on its element
    predictCalls, \* tag -> Predict calls made with it as content
    hashtagCount, \* the HashtagCount elements emitted
    run,        \* "running" | "done" | "failed": what beamx.Run returned
    \* beam.Combine(&clusterFn{})
    emitted,    \* number of HashtagCount elements handed to the combiner
    accs,       \* the live accumulators (HashTagGroupAccumulator), see Canon
    output,     \* <<>> before ExtractOutput, <<groups>> after it
    call,       \* the most recent AddInput / MergeAccumulators call
    \* beam.ParDo(&getHashtagsFn{}) on the impulse
    scan,       \* "idle" | "running" | "done" | "failed": the scan's loop
    \* beam.ParDo(flattenGroupsFn), beam.ParDo(&summaryHashTagsFn{})
    finalized,  \* the finalized groups (main's groups), one element each
    summary,    \* per group: "pending" | "writing" | "done" | "skipped" | "failed"
    request,    \* per group: the document of its Add call (NoDoc: none)
    topics,     \* the "topics" collection, in order of creation
    summarized, \* the groups (by index) summaryHashTagsFn emitted
    \* Teardown(s, formatted)
    teardown,   \* "waiting" | "done" | "failed": teardownFn's one element
    posts,      \* the POST calls of this run, each with what it returned
    runNo,      \* which run over the same corpus this is
    \* FireStore.GetTopicByTags
    served      \* what the most recent call of GetTopicByTags returned

countVars == <<scanned, raw, partial, summed>>

embedVars == <<elem, attempts, predictCalls, hashtagCount, run>>

clusterVars == <<emitted, accs, output, call>>

sinkVars == <<scan, finalized, summary, request, topics, summarized, teardown,
              posts, runNo, served>>

vars == <<scanned, raw, partial, summed, elem, attempts, predictCalls,
          hashtagCount, run, emitted, accs, output, call, scan, finalized,
          summary, request, topics, summarized, teardown, posts, runNo,
          served>>

----------------------------------------------------------------------------
(* Counting: mapFn emits (tag, 1) for each occurrence and CombinePerKey    *)
(* sums the values of a key with combineFn, in any grouping and order.     *)

\* func mapFn(s string, emit func(x string, y int64)): the pair it emits.
mapFn(s) == <<s, 1>>

\* combineFn that keeps its first argument.
combineFn_First(a, b) == a

\* func combineFn(a, b int64) int64
combineFn(a, b) == a + b

----------------------------------------------------------------------------
(* The count threshold and the embedding call.                             *)

\* What f.client.Predict can return: an error, or a response with no
\* prediction, or with one prediction whose values list is any vector the
\* service produces (the list may be missing or empty).
Responses ==
    {[err |-> TRUE, Predictions |-> <<>>]}
        \cup {[err |-> FALSE, Predictions |-> p] :
                  p \in {<<>>} \cup {<<v>> : v \in {<<>>, <<10, 0>>, <<9, 9>>,
                                                    <<5, 8>>}}}

\* The filter letting through the counts below the threshold.
Survives_Below(count, t) == count < t

\* The test of ProcessElement, if count < tagCountThreshold { return nil },
\* with the threshold t in place of the constant: the element goes on.
Survives(count, t) == ~(count < t)

\* ProcessElement with the filter off by one (<=).
ProcessElement_Le(s, count, resp) ==
    IF count <= tagCountThreshold
    THEN [calls |-> 0, err |-> FALSE, emit |-> <<>>]
    ELSE IF resp.err \/ Len(resp.Predictions) <= 0
         THEN [calls |-> 1, err |-> TRUE, emit |-> <<>>]
         ELSE [calls |-> 1, err |-> FALSE,
               emit |-> <<[Hashtag |-> s, Count |-> count,
                           Vector |-> resp.Predictions[1]]>>]

\* func (f *mapHashTagCount) ProcessElement(ctx, s, count, emit) error, with
\* resp the outcome of the Predict call if one is made: the number of
\* Predict calls, whether an error is returned, and the elements emitted.
ProcessElement(s, count, resp) ==
    IF count < tagCountThreshold
    THEN [calls |-> 0, err |-> FALSE, emit |-> <<>>]
    ELSE IF resp.err
         THEN [calls |-> 1, err |-> TRUE, emit |-> <<>>]
         ELSE IF Len(resp.Predictions) <= 0
              THEN [calls |-> 1, err |-> TRUE, emit |-> <<>>]
              ELSE [calls |-> 1, err |-> FALSE,
                    emit |-> <<[Hashtag |-> s, Count |-> count,
                                Vector |-> resp.Predictions[1]]>>]

----------------------------------------------------------------------------
(* The combiner's pure functions.                                          *)

RECURSIVE distanceLoop(_, _, _, _)
distanceLoop(a, b, i, sum) ==
    IF i > Len(a) THEN sum ELSE distanceLoop(a, b, i + 1, sum + a[i] * b[i])

\* for i := range a { sum += a[i] * b[i] }: reading b[i] past the end of b
\* is an index out of range, a run-time panic.
distancePanics(a, b) == \E i \in DOMAIN a : i \notin DOMAIN b

\* func distance(a, b []float32) float32.  It ranges over a and reads b[i]:
\* in Go a shorter b is an index out of range.  The vectors of TagKinds all
\* have one length.
distance(a, b) == distanceLoop(a, b, 1, 0)

\* The loop of findClosest taking a group only on a strictly greater score.
RECURSIVE findClosestLoop_First(_, _, _, _, _)
findClosestLoop_First(groups, tag, i, target, maxDistance) ==
    IF i > Len(groups) THEN <<target, maxDistance>>
    ELSE LET d == distance(groups[i].Centroid.Vector, tag.Vector)
         IN  IF d > maxDistance
             THEN findClosestLoop_First(groups, tag, i + 1, i - 1, d)
             ELSE findClosestLoop_First(groups, tag, i + 1, target, maxDistance)

\* for i, group := range acc.Groups { if d >= maxDistance { ... } }
RECURSIVE findClosestLoop(_, _, _, _, _)
findClosestLoop(groups, tag, i, target, maxDistance) ==
    IF i > Len(groups) THEN <<target, maxDistance>>
    ELSE LET d == distance(groups[i].Centroid.Vector, tag.Vector)
         IN  IF d >= maxDistance
             THEN findClosestLoop(groups, tag, i + 1, i - 1, d)
             ELSE findClosestLoop(groups, tag, i + 1, target, maxDistance)

\* findClosest that takes any positive score for close enough.
findClosest_NoThreshold(acc, tag) ==
    LET r == findClosestLoop(acc.Groups, tag, 1, 0, 0)
    IN  [target |-> r[1], ok |-> r[2] > 0]

\* findClosest with the threshold compared by >=.
findClosest_Ge(acc, tag) ==
    LET r == findClosestLoop(acc.Groups, tag, 1, 0, 0)
    IN  [target |-> r[1], ok |-> r[2] >= distanceThreshold]

\* findClosest that never records which group scored best: the index stays
\* at its initial value.
findClosest_First(acc, tag) ==
    LET r == findClosestLoop(acc.Groups, tag, 1, 0, 0)
    IN  [target |-> 0, ok |-> r[2] > distanceThreshold]

\* func (acc HashTagGroupAccumulator) findClosest(tag) (int, bool)
findClosest(acc, tag) ==
    LET r == findClosestLoop(acc.Groups, tag, 1, 0, 0)
    IN  [target |-> r[1], ok |-> r[2] > distanceThreshold]

\* func (fn *clusterFn) CreateAccumulator() HashTagGroupAccumulator
CreateAccumulator == [Groups |-> <<>>]

\* AddInput that never promotes the candidate to centroid.
AddInput_NoPromote(acc, tag) ==
    LET r == findClosest(acc, tag)
        i == r.target + 1
    IN  IF r.ok
        THEN [acc EXCEPT !.Groups[i].Hashtags = Append(@, tag)]
        ELSE [acc EXCEPT !.Groups =
                  Append(@, [Centroid |-> tag, Hashtags |-> <<tag>>])]

\* AddInput that promotes a candidate whose count only equals the centroid's.
AddInput_PromoteGe(acc, tag) ==
    LET r == findClosest(acc, tag)
        i == r.target + 1
    IN  IF r.ok
        THEN [acc EXCEPT !.Groups[i] =
                  [Centroid |-> IF tag.Count >= @.Centroid.Count
                                THEN tag ELSE @.Centroid,
                   Hashtags |-> Append(@.Hashtags, tag)]]
        ELSE [acc EXCEPT !.Groups =
                  Append(@, [Centroid |-> tag, Hashtags |-> <<tag>>])]

\* AddInput that never joins an existing group: every candidate opens its own.
AddInput_NewGroup(acc, tag) ==
    [acc EXCEPT !.Groups =
         Append(@, [Centroid |-> tag, Hashtags |-> <<tag>>])]

\* func (fn *clusterFn) AddInput(acc, tag) HashTagGroupAccumulator
AddInput(acc, tag) ==
    LET r == findClosest(acc, tag)
        i == r.target + 1
    IN  IF r.ok
        THEN [acc EXCEPT !.Groups[i] =
                  [Centroid |-> IF tag.Count > @.Centroid.Count
                                THEN tag ELSE @.Centroid,
                   Hashtags |-> Append(@.Hashtags, tag)]]
        ELSE [acc EXCEPT !.Groups =
                  Append(@, [Centroid |-> tag, Hashtags |-> <<tag>>])]

\* Merge that keeps only the other group's centroid, not its members.
Merge_CentroidOnly(g, other) ==
    IF g.Centroid.Count > other.Centroid.Count
    THEN [g EXCEPT !.Hashtags = Append(@, other.Centroid)]
    ELSE [other EXCEPT !.Hashtags = Append(@, g.Centroid)]

\* func (g HashTagGroup) Merge(other HashTagGroup) HashTagGroup
Merge(g, other) ==
    IF g.Centroid.Count > other.Centroid.Count
    THEN [g EXCEPT !.Hashtags = @ \o other.Hashtags]
    ELSE [other EXCEPT !.Hashtags = @ \o g.Hashtags]

\* The loop body with an unabsorbed group appended to a.Groups at once.
mergeStep_Eager(st, group) ==
    LET r == findClosest([Groups |-> st.a], group.Centroid)
        i == r.target + 1
    IN  IF r.ok
        THEN [st EXCEPT !.a[i] = Merge(@, group)]
        ELSE [st EXCEPT !.a = Append(@, group)]

\* One iteration of MergeAccumulators' loop over b.Groups: st.a is
\* a.Groups, st.groups the local slice of unabsorbed groups.
mergeStep(st, group) ==
    LET r == findClosest([Groups |-> st.a], group.Centroid)
        i == r.target + 1
    IN  IF r.ok
        THEN [st EXCEPT !.a[i] = Merge(@, group)]
        ELSE [st EXCEPT !.groups = Append(@, group)]

\* The loop state after the first k groups of b.
RECURSIVE mergeLoop(_, _, _)
mergeLoop(a, b, k) ==
    IF k = 0 THEN [a |-> a.Groups, groups |-> <<>>]
    ELSE mergeStep(mergeLoop(a, b, k - 1), b.Groups[k])

\* MergeAccumulators that puts b's groups after a's without comparing them.
MergeAccumulators_Concat(a, b) == [Groups |-> a.Groups \o b.Groups]

\* MergeAccumulators without the final append of the unabsorbed groups.
MergeAccumulators_NoAppend(a, b) ==
    [Groups |-> mergeLoop(a, b, Len(b.Groups)).a]

\* func (fn *clusterFn) MergeAccumulators(a, b) HashTagGroupAccumulator
MergeAccumulators(a, b) ==
    LET st == mergeLoop(a, b, Len(b.Groups))
    IN  [Groups |-> st.a \o st.groups]

\* func (fn *clusterFn) ExtractOutput(acc) []HashTagGroup
ExtractOutput(acc) == acc.Groups

----------------------------------------------------------------------------
(* The persister's and the teardown's pure functions.  A Topic document is *)
(* [summarized, tags]; its timestamp field is set by the server and is not *)
(* modelled.                                                               *)

\* const documentThreshold = 10.
documentThreshold == 10

\* The 30 of group.Hashtags[:minInt(30, len(group.Hashtags))].
topTagsLimit == 30

\* func flattenGroupsFn(groups []HashTagGroup, emit func(HashTagGroup)).
flattenGroupsFn(gs) == gs

\* func minInt(a, b int) int.
minInt(a, b) == IF a < b THEN a ELSE b

\* slices.SortFunc(group.Hashtags, ...) with the comparison of the source:
\* a member of greater Count comes first.  The sort is not stable, so the
\* outcomes are all the orders of the members by non-increasing Count.
\* rest is the set of positions of hashtags not placed yet.
RECURSIVE SortOrders(_, _)
SortOrders(hashtags, rest) ==
    IF rest = {}
    THEN {<<>>}
    ELSE LET top == {i \in rest :
                        \A j \in rest : hashtags[i].Count >= hashtags[j].Count}
         IN  UNION {{<<hashtags[i]>> \o s :
                         s \in SortOrders(hashtags, rest \ {i})} : i \in top}

SortFunc(hashtags) == SortOrders(hashtags, DOMAIN hashtags)

\* documents += tag.Count over the first n members.
RECURSIVE documentsLoop(_, _)
documentsLoop(sorted, n) ==
    IF n = 0 THEN 0 ELSE documentsLoop(sorted, n - 1) + sorted[n].Count

\* ProcessElement with the mass test off by one (<=).
SummaryProcessElement_Le(group, sorted) ==
    LET n == minInt(topTagsLimit, Len(sorted))
        tags == [j \in 1 .. n |-> sorted[j].Hashtag]
        documents == documentsLoop(sorted, n)
    IN  IF documents <= documentThreshold
        THEN [add |-> <<>>, emit |-> <<>>]
        ELSE [add |-> <<[summarized |-> FALSE, tags |-> tags]>>,
              emit |-> <<[group EXCEPT !.Hashtags = sorted]>>]

\* ProcessElement that takes every member, not the first 30.
SummaryProcessElement_All(group, sorted) ==
    LET n == Len(sorted)
        tags == [j \in 1 .. n |-> sorted[j].Hashtag]
        documents == documentsLoop(sorted, n)
    IN  IF documents < documentThreshold
        THEN [add |-> <<>>, emit |-> <<>>]
        ELSE [add |-> <<[summarized |-> FALSE, tags |-> tags]>>,
              emit |-> <<[group EXCEPT !.Hashtags = sorted]>>]

\* func (fn *summaryHashTagsFn) ProcessElement(ctx, group, emit) error, up
\* to the Add call, sorted being the order SortFunc left group.Hashtags in:
\* the document handed to Collection("topics").Add (none: return nil before
\* it) and the group emitted once Add has returned without error.
SummaryProcessElement(group, sorted) ==
    LET n == minInt(topTagsLimit, Len(sorted))
        tags == [j \in 1 .. n |-> sorted[j].Hashtag]
        documents == documentsLoop(sorted, n)
    IN  IF documents < documentThreshold
        THEN [add |-> <<>>, emit |-> <<>>]
        ELSE [add |-> <<[summarized |-> FALSE, tags |-> tags]>>,
              emit |-> <<[group EXCEPT !.Hashtags = sorted]>>]

\* func formatFn(group HashTagGroup) string: the JSON list of the members'
\* tag strings, kept as the list.
formatFn(group) == [j \in DOMAIN group.Hashtags |-> group.Hashtags[j].Hashtag]

\* What the calls of runTeardownTask can come to: Environ fails, NewClient
\* fails, Post returns an error, or Post returns a response with a status.
NotifierOutcomes ==
    {[stage |-> s, StatusCode |-> 0] : s \in {"environ", "client", "post"}}
        \cup {[stage |-> "resp", StatusCode |-> c] : c \in {200, 204, 500}}

\* runTeardownTask that takes every 2xx status for success.
runTeardownTask_Any2xx(o) ==
    IF o.stage = "environ" \/ o.stage = "client"
    THEN [posts |-> <<>>, err |-> TRUE]
    ELSE IF o.stage = "post"
         THEN [posts |-> <<o>>, err |-> TRUE]
         ELSE [posts |-> <<o>>, err |-> o.StatusCode \notin {200, 204}]

\* func runTeardownTask(ctx) error: the POST made, if any, and whether an
\* error is returned.
runTeardownTask(o) ==
    IF o.stage = "environ"
    THEN [posts |-> <<>>, err |-> TRUE]
    ELSE IF o.stage = "client"
         THEN [posts |-> <<>>, err |-> TRUE]
         ELSE IF o.stage = "post"
              THEN [posts |-> <<o>>, err |-> TRUE]
              ELSE IF o.StatusCode # 200
                   THEN [posts |-> <<o>>, err |-> TRUE]
                   ELSE [posts |-> <<o>>, err |-> FALSE]

\* func (fn *teardownFn) ProcessElement(ctx, _ int, lines) error: the lines
\* are logged, then runTeardownTask.
TeardownProcessElement(lines, o) == runTeardownTask(o)

\* A fan-in without the barrier: the element is there with the first line.
GroupByKey_Early(complete, col) == IF col # {} THEN {col} ELSE {}

\* beam.AddFixedKey and beam.GroupByKey in Teardown: every line gets key 0,
\* and the one element (0, all lines) exists once the input collection is
\* complete; an empty collection has no key and gives no element.
GroupByKey(complete, col) == IF complete /\ col # {} THEN {col} ELSE {}

----------------------------------------------------------------------------
\* The API server's read of the sink: FireStore.GetTopicByTags
\* (cloudrun/api-server/models/store.go).

\* Topic{}: the zero value returned with every error.
EmptyTopic == [Tags |-> <<>>]

\* What the store does on one call: it answers the query, s.App.Firestore
\* returns an error, or iter.Next returns an error other than Done.
StoreOutcomes == {"ok", "client", "iterator"}

\* The records of the collection the query selects: summarized == true and
\* tags array-contains-any of the query's tags.
Selected(collection, tags) ==
    {k \in DOMAIN collection :
         /\ collection[k].summarized = TRUE
         /\ \E a \in DOMAIN collection[k].tags, b \in DOMAIN tags :
                collection[k].tags[a] = tags[b]}

\* The same query without Where("summarized", "==", true).
Selected_Any(collection, tags) ==
    {k \in DOMAIN collection :
         \E a \in DOMAIN collection[k].tags, b \in DOMAIN tags :
             collection[k].tags[a] = tags[b]}

\* GetTopicByTags that leaves the summarized filter out of its query.
GetTopicByTags_NoFilter(collection, tags, o) ==
    IF o = "client"
    THEN [query |-> tags, topic |-> EmptyTopic, id |-> 0, err |-> "client"]
    ELSE IF o = "iterator"
         THEN [query |-> tags, topic |-> EmptyTopic, id |-> 0,
               err |-> "iterator"]
         ELSE LET sel == Selected_Any(collection, tags)
              IN  IF sel = {}
                  THEN [query |-> tags, topic |-> EmptyTopic, id |-> 0,
                        err |-> "topic not found"]
                  ELSE LET k == CHOOSE m \in sel : \A n \in sel : n <= m
                       IN  [query |-> tags,
                            topic |-> [Tags |-> collection[k].tags],
                            id |-> k, err |-> "nil"]

\* func (s *FireStore) GetTopicByTags(ctx, tags) (Topic, error).  The
\* collection is in order of creation, which is the order of the server
\* timestamps: OrderBy("timestamp", Desc).Limit(1) yields the selected
\* record of the greatest index.  id names the record returned (0: none);
\* it is not a field of Topic.
GetTopicByTags(collection, tags, o) ==
    IF o = "client"
    THEN [query |-> tags, topic |-> EmptyTopic, id |-> 0, err |-> "client"]
    ELSE IF o = "iterator"
         THEN [query |-> tags, topic |-> EmptyTopic, id |-> 0,
               err |-> "iterator"]
         ELSE LET sel == Selected(collection, tags)
              IN  IF sel = {}
                  THEN [query |-> tags, topic |-> EmptyTopic, id |-> 0,
                        err |-> "topic not found"]
                  ELSE LET k == CHOOSE m \in sel : \A n \in sel : n <= m
                       IN  [query |-> tags,
                            topic |-> [Tags |-> collection[k].tags],
                            id |-> k, err |-> "nil"]

\* No call of GetTopicByTags has returned yet.
NoServed == [query |-> <<>>, topic |-> EmptyTopic, id |-> 0, err |-> "none"]

----------------------------------------------------------------------------
(* Each stage is checked by a specification of its own, the other stages'  *)
(* variables at rest.                                                      *)

NoTag == [Hashtag |-> 0, Count |-> 0, Vector |-> <<>>]

NoCall == [op |-> "none", a |-> CreateAccumulator, b |-> CreateAccumulator,
           tag |-> NoTag, res |-> CreateAccumulator]

Values == 1 .. MaxOccur

NoPartial == [v \in Values |-> 0]

CountIdle ==
    /\ scanned = [t \in TagNames |-> 0]
    /\ raw = [t \in TagNames |-> 0]
    /\ partial = [t \in TagNames |-> NoPartial]

EmbedIdle ==
    /\ elem = [t \in TagNames |-> "pending"]
    /\ attempts = [t \in TagNames |-> 0]
    /\ predictCalls = [t \in TagNames |-> 0]
    /\ hashtagCount = {}
    /\ run = "running"

ClusterIdle ==
    /\ emitted = 0
    /\ accs = <<>>
    /\ output = <<>>
    /\ call = NoCall

SinkIdle ==
    /\ scan = "idle"
    /\ finalized = <<>>
    /\ summary = <<>>
    /\ request = <<>>
    /\ topics = <<>>
    /\ summarized = {}
    /\ teardown = "waiting"
    /\ posts = <<>>
    /\ runNo = 1
    /\ served = NoServed

----------------------------------------------------------------------------
(* Counting run by the engine: occurrences are mapped one at a time and    *)
(* the values of a key are summed pairwise, in any grouping and order.     *)

\* The number of partial sums held for a tag.
Held(bag) == LET RECURSIVE upTo(_)
                 upTo(v) == IF v = 0 THEN 0 ELSE bag[v] + upTo(v - 1)
             IN  upTo(MaxOccur)

InitCount ==
    /\ scanned \in [TagNames -> 0 .. MaxOccur]
    /\ raw = scanned
    /\ partial = [t \in TagNames |-> NoPartial]
    /\ summed = [t \in TagNames |-> 0]
    /\ ClusterIdle
    /\ EmbedIdle
    /\ SinkIdle

\* mapFn on one occurrence of tag t: (t, 1) enters the keyed combine.
StepMapFn ==
    \E t \in TagNames :
        LET kv == mapFn(t)
        IN  /\ raw[t] > 0
            /\ raw' = [raw EXCEPT ![t] = @ - 1]
            /\ partial' = [partial EXCEPT ![kv[1]][kv[2]] = @ + 1]
            /\ UNCHANGED <<scanned, summed, embedVars, clusterVars, sinkVars>>

\* combineFn on two of the partial sums held for tag t.
StepCombineFn ==
    \E t \in TagNames, x \in Values, y \in Values :
        /\ partial[t][x] >= 1
        /\ partial[t][y] >= 1
        /\ x = y => partial[t][x] >= 2
        /\ partial' = [partial EXCEPT ![t] =
               LET less == [[@ EXCEPT ![x] = @ - 1] EXCEPT ![y] = @ - 1]
               IN  [less EXCEPT ![combineFn(x, y)] = @ + 1]]
        /\ UNCHANGED <<scanned, raw, summed, embedVars, clusterVars, sinkVars>>

\* Every occurrence of t is mapped and one sum is left: it is the output.
StepEmitSum ==
    \E t \in TagNames, v \in Values :
        /\ raw[t] = 0
        /\ summed[t] = 0
        /\ Held(partial[t]) = 1
        /\ partial[t][v] = 1
        /\ summed' = [summed EXCEPT ![t] = v]
        /\ partial' = [partial EXCEPT ![t] = NoPartial]
        /\ UNCHANGED <<scanned, raw, embedVars, clusterVars, sinkVars>>

NextCount ==
    \/ StepMapFn
    \/ StepCombineFn
    \/ StepEmitSum

SpecCount == InitCount /\ [][NextCount]_vars

----------------------------------------------------------------------------
(* The filter and embedding stage run by the engine: ProcessElement on     *)
(* each (tag, count) element; a bundle whose ProcessElement returned an    *)
(* error is retried or fails the run.                                      *)

InitEmbed ==
    /\ CountIdle
    /\ summed \in [TagNames -> 0 .. MaxCount]
    /\ EmbedIdle
    /\ ClusterIdle
    /\ SinkIdle

StepProcessElement ==
    \E t \in TagNames, resp \in Responses :
        LET r == ProcessElement(t, summed[t], resp)
        IN  /\ run = "running"
            /\ summed[t] > 0
            /\ elem[t] = "pending"
            /\ attempts' = [attempts EXCEPT ![t] = @ + 1]
            /\ predictCalls' = [predictCalls EXCEPT ![t] = @ + r.calls]
            /\ hashtagCount' = hashtagCount \cup {r.emit[i] : i \in DOMAIN r.emit}
            /\ elem' = [elem EXCEPT ![t] = IF r.err THEN "failed" ELSE "done"]
            /\ UNCHANGED <<run, countVars, clusterVars, sinkVars>>

\* The engine runs the failed bundle again.
StepRetryElement ==
    \E t \in TagNames :
        /\ run = "running"
        /\ elem[t] = "failed"
        /\ attempts[t] < MaxAttempts
        /\ elem' = [elem EXCEPT ![t] = "pending"]
        /\ UNCHANGED <<attempts, predictCalls, hashtagCount, run,
                       countVars, clusterVars, sinkVars>>

\* The engine gives up: beamx.Run returns the error and main exits.
StepRunFails ==
    \E t \in TagNames :
        /\ run = "running"
        /\ elem[t] = "failed"
        /\ run' = "failed"
        /\ UNCHANGED <<elem, attempts, predictCalls, hashtagCount,
                       countVars, clusterVars, sinkVars>>

NextEmbed ==
    \/ StepProcessElement
    \/ StepRetryElement
    \/ StepRunFails

SpecEmbed == InitEmbed /\ [][NextEmbed]_vars

----------------------------------------------------------------------------
(* The combiner run by the engine: any number of accumulators, inputs      *)
(* folded into any of them, accumulators merged pairwise in any order.     *)

\* The tag names (ids) of a group's members, and of an accumulator.
GroupTags(g) == {g.Hashtags[j].Hashtag : j \in DOMAIN g.Hashtags}

AccTags(acc) == UNION {GroupTags(acc.Groups[i]) : i \in DOMAIN acc.Groups}

FirstTag(acc) == CHOOSE m \in AccTags(acc) : \A n \in AccTags(acc) : m <= n

\* The engine's accumulators are an unordered collection.  They are kept as
\* a sequence in one canonical order: the non-empty ones by their smallest
\* tag id, then the empty ones.
Canon(seq) ==
    LET ne == {i \in DOMAIN seq : seq[i].Groups # <<>>}
        rank(i) == Cardinality({j \in ne :
                                  FirstTag(seq[j]) < FirstTag(seq[i])}) + 1
    IN  [r \in 1 .. Len(seq) |->
            IF r <= Cardinality(ne)
            THEN seq[CHOOSE i \in ne : rank(i) = r]
            ELSE CreateAccumulator]

RemoveAt(seq, t) == SubSeq(seq, 1, t - 1) \o SubSeq(seq, t + 1, Len(seq))

InitCluster ==
    /\ CountIdle
    /\ summed = [t \in TagNames |-> 0]
    /\ EmbedIdle
    /\ emitted = 0
    /\ accs = <<>>
    /\ output = <<>>
    /\ call = NoCall
    /\ SinkIdle

\* The engine starts a bundle: CreateAccumulator.
StepCreateAccumulator ==
    /\ output = <<>>
    /\ Len(accs) < MaxShards
    /\ accs' = Canon(Append(accs, CreateAccumulator))
    /\ UNCHANGED <<emitted, output, call, countVars, embedVars, sinkVars>>

\* The engine folds the next embedded tag into one accumulator.
StepAddInput ==
    \E s \in DOMAIN accs, k \in TagKinds :
        LET tag == [Hashtag |-> emitted + 1, Count |-> k.Count,
                    Vector |-> k.Vector]
            res == AddInput(accs[s], tag)
        IN  /\ output = <<>>
            /\ emitted < MaxTags
            /\ emitted' = emitted + 1
            /\ accs' = Canon([accs EXCEPT ![s] = res])
            /\ call' = [op |-> "AddInput", a |-> accs[s],
                        b |-> CreateAccumulator, tag |-> tag, res |-> res]
            /\ UNCHANGED <<output, countVars, embedVars, sinkVars>>

\* The engine merges accumulator t into accumulator s.
StepMergeAccumulators ==
    \E s \in DOMAIN accs, t \in DOMAIN accs :
        LET res == MergeAccumulators(accs[s], accs[t])
        IN  /\ output = <<>>
            /\ s # t
            /\ accs' = Canon(RemoveAt([accs EXCEPT ![s] = res], t))
            /\ call' = [op |-> "Merge", a |-> accs[s], b |-> accs[t],
                        tag |-> NoTag, res |-> res]
            /\ UNCHANGED <<emitted, output, countVars, embedVars, sinkVars>>

\* The root accumulator is the only one left: ExtractOutput.
StepExtractOutput ==
    /\ output = <<>>
    /\ Len(accs) = 1
    /\ output' = <<ExtractOutput(accs[1])>>
    /\ accs' = <<>>
    /\ UNCHANGED <<emitted, call, countVars, embedVars, sinkVars>>

NextCluster ==
    \/ StepCreateAccumulator
    \/ StepAddInput
    \/ StepMergeAccumulators
    \/ StepExtractOutput

SpecCluster == InitCluster /\ [][NextCluster]_vars

----------------------------------------------------------------------------
(* The persister and the teardown run by the engine: ProcessElement on     *)
(* each finalized group, by any number of workers at once, each blocked in *)
(* its Add call until the sink answers; then the keyed fan-in and          *)
(* teardownFn.  A DoFn's error fails its bundle and with it the run (the   *)
(* engine's re-running of a failed bundle is in SpecEmbed).                *)

\* Finalized groups handed to the persister in one run.
MaxGroups == 2

\* Runs made over the same corpus.
MaxRuns == 2

\* The 31 counts 6, 6, 7, 8, ..., 35 in ascending order: one member more
\* than ProcessElement takes, the two smallest equal.
ManyCounts == [j \in 1 .. topTagsLimit + 1 |-> IF j = 1 THEN 6 ELSE 4 + j]

\* The member counts of the groups the persister may be handed: singletons
\* just below and at documentThreshold, a group with equal counts out of
\* order, and a group of more than 30 members.  Every count has passed the
\* filter (>= tagCountThreshold).
MemberCounts == {<<9>>, <<10>>, <<6, 9, 6>>, ManyCounts}

\* The i-th group of the output with the given member counts; the centroid
\* is the first member of the greatest count.  Tag strings are numbers,
\* distinct over the whole output.
MakeGroup(i, counts) ==
    LET hs == [j \in DOMAIN counts |->
                  [Hashtag |-> 100 * i + j, Count |-> counts[j],
                   Vector |-> <<10, 0>>]]
        c  == CHOOSE j \in DOMAIN counts :
                  /\ \A k \in DOMAIN counts : counts[j] >= counts[k]
                  /\ \A k \in 1 .. j - 1 : counts[k] < counts[j]
    IN  [Centroid |-> hs[c], Hashtags |-> hs]

\* The outputs of the combiner the persister stage is started from.
GroupLists ==
    UNION {{[i \in 1 .. n |-> MakeGroup(i, cs[i])] :
                cs \in [1 .. n -> MemberCounts]} : n \in 0 .. MaxGroups}

NoRequest == [add |-> <<>>, emit |-> <<>>]

\* The lines of main's formatted collection so far.
Formatted == {formatFn(g) : g \in summarized}

\* A barrier that counts an element whose ProcessElement returned an error
\* as finished.
SummaryComplete_IgnoreFailed ==
    /\ output # <<>>
    /\ \A i \in DOMAIN summary : summary[i] \in {"done", "skipped", "failed"}

\* Every element of groups has been through summaryHashTagsFn: the input
\* of Teardown's GroupByKey is complete.
SummaryComplete ==
    /\ output # <<>>
    /\ \A i \in DOMAIN summary : summary[i] \in {"done", "skipped"}

InitPersist ==
    /\ CountIdle
    /\ summed = [t \in TagNames |-> 0]
    /\ EmbedIdle
    /\ emitted = 0
    /\ accs = <<>>
    /\ call = NoCall
    /\ output \in {<<gs>> : gs \in GroupLists}
    /\ scan = "done"
    /\ finalized = flattenGroupsFn(output[1])
    /\ summary = [i \in DOMAIN finalized |-> "pending"]
    /\ request = [i \in DOMAIN finalized |-> NoRequest]
    /\ topics = <<>>
    /\ summarized = {}
    /\ teardown = "waiting"
    /\ posts = <<>>
    /\ runNo = 1
    /\ served = NoServed

\* A worker runs summaryHashTagsFn.ProcessElement on group i up to its Add
\* call, or to its return nil when the mass is below the threshold.
StepSummaryProcessElement ==
    \E i \in DOMAIN finalized :
        /\ run = "running"
        /\ summary[i] = "pending"
        /\ \E sorted \in SortFunc(finalized[i].Hashtags) :
               LET r == SummaryProcessElement(finalized[i], sorted)
               IN  /\ summary' = [summary EXCEPT ![i] =
                                      IF r.add = <<>> THEN "skipped"
                                                      ELSE "writing"]
                   /\ request' = [request EXCEPT ![i] = r]
        /\ UNCHANGED <<scan, finalized, topics, summarized, teardown, posts,
                       runNo, countVars, embedVars, clusterVars, served>>

\* A persister that writes every group to one fixed document instead of
\* creating a new one: a later write replaces the record of another worker.
StepAddReturns_Overwrite ==
    \E i \in DOMAIN finalized :
        LET doc == [summarized |-> request[i].add[1].summarized,
                    tags |-> request[i].add[1].tags,
                    run |-> runNo, group |-> i]
        IN  /\ run = "running"
            /\ summary[i] = "writing"
            /\ topics' = IF topics = <<>> THEN <<doc>>
                         ELSE [topics EXCEPT ![Len(topics)] = doc]
            /\ summarized' = summarized \cup {request[i].emit[1]}
            /\ summary' = [summary EXCEPT ![i] = "done"]
            /\ UNCHANGED <<scan, finalized, request, teardown, posts, runNo,
                           countVars, embedVars, clusterVars, served>>

\* Add returns without error: the sink has created the document, and the
\* worker emits the group and returns nil.  run and group name the run and
\* the group a record comes from; they are not fields of the document.
StepAddReturns ==
    \E i \in DOMAIN finalized :
        /\ run = "running"
        /\ summary[i] = "writing"
        /\ topics' = Append(topics,
                            [summarized |-> request[i].add[1].summarized,
                             tags |-> request[i].add[1].tags,
                             run |-> runNo, group |-> i])
        /\ summarized' = summarized \cup {request[i].emit[1]}
        /\ summary' = [summary EXCEPT ![i] = "done"]
        /\ UNCHANGED <<scan, finalized, request, teardown, posts, runNo,
                       countVars, embedVars, clusterVars, served>>

\* Add returns an error: nothing is created, ProcessElement returns it.
StepAddFails ==
    \E i \in DOMAIN finalized :
        /\ run = "running"
        /\ summary[i] = "writing"
        /\ summary' = [summary EXCEPT ![i] = "failed"]
        /\ UNCHANGED <<scan, finalized, request, topics, summarized, teardown,
                       posts, runNo, countVars, embedVars, clusterVars, served>>

\* teardownFn.ProcessElement on the element of the fan-in.
StepTeardownProcessElement ==
    \E lines \in GroupByKey(SummaryComplete, Formatted), o \in NotifierOutcomes :
        LET r == TeardownProcessElement(lines, o)
        IN  /\ run = "running"
            /\ teardown = "waiting"
            /\ posts' = posts \o r.posts
            /\ teardown' = IF r.err THEN "failed" ELSE "done"
            /\ UNCHANGED <<scan, finalized, summary, request, topics,
                           summarized, runNo, countVars, embedVars,
                           clusterVars, served>>

\* A DoFn of these stages returned an error: beamx.Run returns it and main
\* exits through log.Fatal.
StepRunAborts ==
    /\ run = "running"
    /\ \/ scan = "failed"
       \/ \E i \in DOMAIN summary : summary[i] = "failed"
       \/ teardown = "failed"
    /\ run' = "failed"
    /\ UNCHANGED <<elem, attempts, predictCalls, hashtagCount, countVars,
                   clusterVars, sinkVars>>

\* Every stage has finished: beamx.Run returns nil.
StepRunReturns ==
    /\ run = "running"
    /\ SummaryComplete
    /\ GroupByKey(SummaryComplete, Formatted) = {} \/ teardown = "done"
    /\ run' = "done"
    /\ UNCHANGED <<elem, attempts, predictCalls, hashtagCount, countVars,
                   clusterVars, sinkVars>>

NextPersist ==
    \/ StepSummaryProcessElement
    \/ StepAddReturns
    \/ StepAddFails
    \/ StepTeardownProcessElement
    \/ StepRunAborts
    \/ StepRunReturns

SpecPersist == InitPersist /\ [][NextPersist]_vars

\* The operator starts the pipeline again over the same corpus, which with
\* the same fold and merge order gives the same finalized groups; the
\* topics collection is what the earlier runs left.
StepRerun ==
    /\ run \in {"done", "failed"}
    /\ runNo < MaxRuns
    /\ runNo' = runNo + 1
    /\ run' = "running"
    /\ summary' = [i \in DOMAIN finalized |-> "pending"]
    /\ request' = [i \in DOMAIN finalized |-> NoRequest]
    /\ summarized' = {}
    /\ teardown' = "waiting"
    /\ posts' = <<>>
    /\ UNCHANGED <<scan, finalized, topics, elem, attempts, predictCalls,
                   hashtagCount, countVars, clusterVars, served>>

NextRetry ==
    \/ NextPersist
    \/ StepRerun

SpecRetry == InitPersist /\ [][NextRetry]_vars

----------------------------------------------------------------------------
\* The sink read by the API server while the pipeline writes it.

\* The tags query parameter of HandleSearchTopic: a tag of the first group,
\* and a tag of the second with that of the first.
Queries == {<<101>>, <<201, 101>>}

\* The summarizing service, which is not part of this program, has written
\* the summary of one Topic and set its summarized field.
StepSummarize ==
    \E k \in DOMAIN topics :
        /\ topics[k].summarized = FALSE
        /\ topics' = [topics EXCEPT ![k].summarized = TRUE]
        /\ UNCHANGED <<scan, finalized, summary, request, summarized,
                       teardown, posts, runNo, served, countVars, embedVars,
                       clusterVars>>

\* HandleSearchTopic calls GetTopicByTags and gets its result.
StepGetTopicByTags ==
    \E tags \in Queries, o \in StoreOutcomes :
        /\ served' = GetTopicByTags(topics, tags, o)
        /\ UNCHANGED <<scan, finalized, summary, request, topics, summarized,
                       teardown, posts, runNo, countVars, embedVars,
                       clusterVars>>

NextServe ==
    \/ NextPersist
    \/ StepSummarize
    \/ StepGetTopicByTags

\* The persister stage started on groups of at most three members.
InitServe ==
    /\ InitPersist
    /\ \A i \in DOMAIN finalized : Len(finalized[i].Hashtags) <= 3

SpecServe == InitServe /\ [][NextServe]_vars

----------------------------------------------------------------------------
(* A whole run: the scan, the counting, the filter and embedding, the      *)
(* combiner, the persister and the teardown, each stage starting when the  *)
(* collection it reads is complete.  A document of the corpus carries one  *)
(* tag; the iterator returns the documents of the smaller tag first.  The  *)
(* counting is folded into the scan: summed[t] is the sum of the ones      *)
(* mapFn made of t's occurrences so far, passed on when the scan has       *)
(* ended.  A DoFn's error fails the run.                                   *)

\* The numbers of occurrences of a tag in the corpus: below the count
\* threshold, above it but below documentThreshold, and at documentThreshold.
RunCounts == {4, 6, 10}

\* The responses of a service that answers with vectors of the full length.
RunResponses ==
    {r \in Responses : r.err \/ r.Predictions = <<>> \/ r.Predictions[1] # <<>>}

InitRun ==
    /\ scanned \in [TagNames -> RunCounts]
    /\ raw = scanned
    /\ partial = [t \in TagNames |-> NoPartial]
    /\ summed = [t \in TagNames |-> 0]
    /\ EmbedIdle
    /\ ClusterIdle
    /\ scan = "running"
    /\ finalized = <<>>
    /\ summary = <<>>
    /\ request = <<>>
    /\ topics = <<>>
    /\ summarized = {}
    /\ teardown = "waiting"
    /\ posts = <<>>
    /\ runNo = 1
    /\ served = NoServed

\* getHashtagsFn.ProcessElement: iter.Next returns the next document and
\* its tag is emitted; mapFn and combineFn add it to the tag's sum.
StepScanNext ==
    \E t \in TagNames :
        /\ run = "running"
        /\ scan = "running"
        /\ raw[t] > 0
        /\ \A u \in 1 .. t - 1 : raw[u] = 0
        /\ raw' = [raw EXCEPT ![t] = @ - 1]
        /\ summed' = [summed EXCEPT ![t] = combineFn(@, mapFn(t)[2])]
        /\ UNCHANGED <<scanned, partial, embedVars, clusterVars, sinkVars>>

\* The scan taking an error of iter.Next for the end of the iteration.
StepScanFails_Break ==
    /\ run = "running"
    /\ scan = "running"
    /\ scan' = "done"
    /\ UNCHANGED <<finalized, summary, request, topics, summarized, teardown,
                   posts, runNo, countVars, embedVars, clusterVars, served>>

\* iter.Next returns an error other than iterator.Done: return err.
StepScanFails ==
    /\ run = "running"
    /\ scan = "running"
    /\ scan' = "failed"
    /\ UNCHANGED <<finalized, summary, request, topics, summarized, teardown,
                   posts, runNo, countVars, embedVars, clusterVars, served>>

\* iter.Next returns iterator.Done: break, return nil.
StepScanDone ==
    /\ run = "running"
    /\ scan = "running"
    /\ \A t \in TagNames : raw[t] = 0
    /\ scan' = "done"
    /\ UNCHANGED <<finalized, summary, request, topics, summarized, teardown,
                   posts, runNo, countVars, embedVars, clusterVars, served>>

\* mapHashTagCount.ProcessElement on the (tag, count) element of t, which
\* CombinePerKey puts out once the scan has ended.
StepEmbed ==
    \E t \in TagNames, resp \in RunResponses :
        LET r == ProcessElement(t, summed[t], resp)
        IN  /\ run = "running"
            /\ scan = "done"
            /\ elem[t] = "pending"
            /\ attempts' = [attempts EXCEPT ![t] = @ + 1]
            /\ predictCalls' = [predictCalls EXCEPT ![t] = @ + r.calls]
            /\ hashtagCount' = hashtagCount \cup {r.emit[i] : i \in DOMAIN r.emit}
            /\ elem' = [elem EXCEPT ![t] = IF r.err THEN "failed" ELSE "done"]
            /\ UNCHANGED <<run, countVars, clusterVars, sinkVars>>

\* Every (tag, count) element has been through mapHashTagCount.
EmbedComplete ==
    /\ scan = "done"
    /\ \A t \in TagNames : elem[t] = "done"

\* The tags folded into some accumulator.
Folded == UNION {AccTags(accs[s]) : s \in DOMAIN accs}

\* The engine starts a bundle of the combiner: CreateAccumulator.
StepRunCreateAccumulator ==
    /\ run = "running"
    /\ EmbedComplete
    /\ hashtagCount # {}
    /\ output = <<>>
    /\ Len(accs) < MaxShards
    /\ accs' = Canon(Append(accs, CreateAccumulator))
    /\ UNCHANGED <<emitted, output, call, countVars, embedVars, sinkVars>>

\* The engine folds an embedded tag into one accumulator.
StepRunAddInput ==
    \E s \in DOMAIN accs, tag \in hashtagCount :
        /\ run = "running"
        /\ output = <<>>
        /\ tag.Hashtag \notin Folded
        /\ emitted' = emitted + 1
        /\ accs' = Canon([accs EXCEPT ![s] = AddInput(accs[s], tag)])
        /\ UNCHANGED <<output, call, countVars, embedVars, sinkVars>>

\* The engine merges accumulator t into accumulator s.
StepRunMergeAccumulators ==
    \E s \in DOMAIN accs, t \in DOMAIN accs :
        /\ run = "running"
        /\ output = <<>>
        /\ s # t
        /\ accs' = Canon(RemoveAt([accs EXCEPT ![s] =
                                       MergeAccumulators(accs[s], accs[t])], t))
        /\ UNCHANGED <<emitted, output, call, countVars, embedVars, sinkVars>>

\* Every tag is folded and one accumulator is left: ExtractOutput, and
\* flattenGroupsFn on its output.  No embedded tag at all: the combiner has
\* no accumulator and puts out nothing, kept as an output without groups.
StepRunExtractOutput ==
    /\ run = "running"
    /\ EmbedComplete
    /\ output = <<>>
    /\ emitted = Cardinality(hashtagCount)
    /\ \/ Len(accs) = 1 /\ output' = <<ExtractOutput(accs[1])>>
       \/ accs = <<>> /\ hashtagCount = {} /\ output' = <<ExtractOutput(CreateAccumulator)>>
    /\ accs' = <<>>
    /\ finalized' = flattenGroupsFn(output'[1])
    /\ summary' = [i \in DOMAIN finalized' |-> "pending"]
    /\ request' = [i \in DOMAIN finalized' |-> NoRequest]
    /\ UNCHANGED <<emitted, call, scan, topics, summarized, teardown, posts,
                   runNo, countVars, embedVars, served>>

NextRun ==
    \/ StepScanNext
    \/ StepScanFails
    \/ StepScanDone
    \/ StepEmbed
    \/ StepRunFails
    \/ StepRunCreateAccumulator
    \/ StepRunAddInput
    \/ StepRunMergeAccumulators
    \/ StepRunExtractOutput
    \/ StepSummaryProcessElement
    \/ StepAddReturns
    \/ StepAddFails
    \/ StepTeardownProcessElement
    \/ StepRunAborts
    \/ StepRunReturns

SpecRun == InitRun /\ [][NextRun]_vars

----------------------------------------------------------------------------
(* Properties of the combiner, checked under SpecCluster.                  *)

Range(seq) == {seq[i] : i \in DOMAIN seq}

TagIds == 1 .. MaxTags

\* The similarity score findClosest compares: centroid against candidate.
Score(g, tag) == distance(g.Centroid.Vector, tag.Vector)

\* The maximum score of a candidate over a non-empty list of groups, and
\* the (1-based) positions of the groups that reach it.
BestScore(groups, tag) ==
    CHOOSE m \in {Score(groups[i], tag) : i \in DOMAIN groups} :
        \A i \in DOMAIN groups : Score(groups[i], tag) <= m

ArgMax(groups, tag) ==
    {i \in DOMAIN groups : Score(groups[i], tag) = BestScore(groups, tag)}

Singleton(tag) == [Centroid |-> tag, Hashtags |-> <<tag>>]

\* Tags x and y are members of one group of some live accumulator or of the
\* extracted output.
Together(x, y) ==
    \/ \E i \in DOMAIN accs : \E g \in Range(accs[i].Groups) :
           {x, y} \subseteq GroupTags(g)
    \/ \E o \in Range(output) : \E g \in Range(o) :
           {x, y} \subseteq GroupTags(g)

\* C1: two tags that are members of the same group of an accumulator are
\* members of the same group after every further step: after a merge of
\* that accumulator with any other (as a or as b), after any AddInput, and
\* in the extracted output.
C1_NonSplitting ==
    [][\A x \in TagIds, y \in TagIds : Together(x, y) => Together(x, y)']_vars

\* A merge has absorbed a two-member group of b into a group of a.
C1_Witness ==
    /\ call.op = "Merge"
    /\ \E g \in Range(call.b.Groups) :
           /\ Len(g.Hashtags) >= 2
           /\ \E h \in Range(call.res.Groups) :
                  /\ GroupTags(g) \subseteq GroupTags(h)
                  /\ GroupTags(h) # GroupTags(g)

GroupOK(g) ==
    /\ Len(g.Hashtags) >= 1
    /\ \E j \in DOMAIN g.Hashtags : g.Hashtags[j] = g.Centroid
    /\ \A j \in DOMAIN g.Hashtags : g.Hashtags[j].Count <= g.Centroid.Count

\* C2: every group of every accumulator (and of the output) has a member,
\* its centroid is one of its members, and the centroid's count is the
\* maximum count over its members.
C2_CentroidInvariant ==
    /\ \A i \in DOMAIN accs : \A g \in Range(accs[i].Groups) : GroupOK(g)
    /\ \A o \in Range(output) : \A g \in Range(o) : GroupOK(g)
    /\ \A g \in Range(call.res.Groups) : GroupOK(g)

\* A group whose centroid is not its first member: a promotion, or a merge
\* won by the other group.
C2_Witness ==
    \E i \in DOMAIN accs : \E g \in Range(accs[i].Groups) :
        /\ Len(g.Hashtags) >= 2
        /\ g.Centroid # g.Hashtags[1]
        /\ g.Centroid.Count > g.Hashtags[1].Count

\* C3: AddInput(state, candidate).  When findClosest reports a group above
\* the threshold, the candidate is appended to exactly that group, that
\* group's centroid becomes the candidate iff the candidate's count is
\* strictly greater than the centroid's, and every other group is unchanged.
\* Otherwise the state gains exactly one group, the candidate alone, and all
\* existing groups are unchanged.
C3_AddInput ==
    call.op = "AddInput" =>
        LET a == call.a.Groups
            r == call.res.Groups
            tag == call.tag
            f == findClosest(call.a, tag)
            i == f.target + 1
        IN  IF f.ok
            THEN /\ Len(r) = Len(a)
                 /\ r[i].Hashtags = Append(a[i].Hashtags, tag)
                 /\ (r[i].Centroid = tag) <=> (tag.Count > a[i].Centroid.Count)
                 /\ r[i].Centroid \in {tag, a[i].Centroid}
                 /\ \A j \in DOMAIN a \ {i} : r[j] = a[j]
            ELSE /\ Len(r) = Len(a) + 1
                 /\ r[Len(r)] = Singleton(tag)
                 /\ \A j \in DOMAIN a : r[j] = a[j]

\* A candidate joined one of two groups and was not promoted: its count
\* equals the centroid's.
C3_Witness ==
    /\ call.op = "AddInput"
    /\ Len(call.a.Groups) >= 2
    /\ findClosest(call.a, call.tag).ok
    /\ LET g == call.a.Groups[findClosest(call.a, call.tag).target + 1]
       IN  g.Centroid.Count = call.tag.Count

\* The members of a group as a set of HashtagCount values.
Members(g) == Range(g.Hashtags)

\* C4: MergeAccumulators(a, b).  Each group g of b, in order, is compared by
\* findClosest (on g's centroid) against the groups of a as they stand; if
\* the flag is set, g's members are joined with that group's members and the
\* centroid kept is one of the two centroids, with the higher count; if not,
\* g goes unchanged to a list that is appended after all of a's groups at
\* the end.  An unabsorbed group is never among the groups compared against.
C4_MergeAccumulators ==
    call.op = "Merge" =>
        LET b == call.b.Groups
            n == Len(b)
        IN  /\ \A k \in 1 .. n :
                   LET pre == mergeLoop(call.a, call.b, k - 1)
                       post == mergeLoop(call.a, call.b, k)
                       g == b[k]
                       f == findClosest([Groups |-> pre.a], g.Centroid)
                       i == f.target + 1
                   IN  IF f.ok
                       THEN /\ Len(post.a) = Len(pre.a)
                            /\ Members(post.a[i]) =
                                   Members(pre.a[i]) \cup Members(g)
                            /\ Len(post.a[i].Hashtags) =
                                   Len(pre.a[i].Hashtags) + Len(g.Hashtags)
                            /\ post.a[i].Centroid \in
                                   {pre.a[i].Centroid, g.Centroid}
                            /\ post.a[i].Centroid.Count >= pre.a[i].Centroid.Count
                            /\ post.a[i].Centroid.Count >= g.Centroid.Count
                            /\ \A j \in DOMAIN pre.a \ {i} : post.a[j] = pre.a[j]
                            /\ post.groups = pre.groups
                       ELSE /\ post.a = pre.a
                            /\ post.groups = Append(pre.groups, g)
            /\ Len(mergeLoop(call.a, call.b, n).a) = Len(call.a.Groups)
            /\ call.res.Groups = mergeLoop(call.a, call.b, n).a
                                     \o mergeLoop(call.a, call.b, n).groups

\* A merge in which one group of b was absorbed and another was not.
C4_Witness ==
    /\ call.op = "Merge"
    /\ Len(call.b.Groups) >= 2
    /\ Len(call.a.Groups) >= 1
    /\ Len(call.res.Groups) = Len(call.a.Groups) + 1

\* C5: findClosest on a non-empty state returns the position of a group
\* whose centroid has the maximum dot product with the candidate, for every
\* candidate (also one whose scores are all zero or negative), and the flag
\* is set iff that maximum is greater than distanceThreshold.
C5_FindClosestArgMax ==
    (call.op = "AddInput" /\ call.a.Groups # <<>>) =>
        LET f == findClosest(call.a, call.tag)
        IN  /\ f.target + 1 \in ArgMax(call.a.Groups, call.tag)
            /\ f.ok <=> (BestScore(call.a.Groups, call.tag) > distanceThreshold)

\* C6: threshold boundary.  A candidate (AddInput) or a group of b
\* (MergeAccumulators) whose best score equals distanceThreshold is not
\* joined: it starts, or stays, a group of its own.  One whose best score is
\* strictly greater is joined to an existing group.
C6_ThresholdBoundary ==
    /\ (call.op = "AddInput" /\ call.a.Groups # <<>>) =>
           LET best == BestScore(call.a.Groups, call.tag)
           IN  /\ best = distanceThreshold =>
                      call.res.Groups =
                          Append(call.a.Groups, Singleton(call.tag))
               /\ best > distanceThreshold =>
                      /\ Len(call.res.Groups) = Len(call.a.Groups)
                      /\ \E g \in Range(call.res.Groups) :
                             call.tag \in Members(g)
    /\ call.op = "Merge" =>
           \A k \in 1 .. Len(call.b.Groups) :
               LET pre == mergeLoop(call.a, call.b, k - 1)
                   post == mergeLoop(call.a, call.b, k)
                   g == call.b.Groups[k]
               IN  pre.a # <<>> =>
                       LET best == BestScore(pre.a, g.Centroid)
                       IN  /\ best = distanceThreshold =>
                                  /\ post.a = pre.a
                                  /\ post.groups = Append(pre.groups, g)
                           /\ best > distanceThreshold =>
                                  /\ post.groups = pre.groups
                                  /\ \E h \in Range(post.a) :
                                         Members(g) \subseteq Members(h)

\* A candidate whose best score is exactly the threshold was folded in.
C6_Witness ==
    /\ call.op = "AddInput"
    /\ call.a.Groups # <<>>
    /\ BestScore(call.a.Groups, call.tag) = distanceThreshold
    /\ Len(call.res.Groups) = Len(call.a.Groups) + 1

\* C7 as stated: when several groups reach the same maximum score, the one
\* chosen is the first of them in group order.
C7_TieBreakFirst ==
    (call.op = "AddInput" /\ Cardinality(ArgMax(call.a.Groups, call.tag)) >= 2) =>
        \A i \in ArgMax(call.a.Groups, call.tag) :
            findClosest(call.a, call.tag).target + 1 <= i

\* C7 amended: when several groups reach the same maximum score, the one
\* chosen is the last of them in group order if that score is not negative;
\* if it is negative the loop selects nothing and position 0 is returned.
C7_TieBreakLast ==
    (call.op = "AddInput" /\ Cardinality(ArgMax(call.a.Groups, call.tag)) >= 2) =>
        IF BestScore(call.a.Groups, call.tag) >= 0
        THEN \A i \in ArgMax(call.a.Groups, call.tag) :
                 findClosest(call.a, call.tag).target + 1 >= i
        ELSE findClosest(call.a, call.tag).target = 0

\* A candidate tied above the threshold between two groups joined the later.
C7_Witness ==
    /\ call.op = "AddInput"
    /\ Cardinality(ArgMax(call.a.Groups, call.tag)) >= 2
    /\ BestScore(call.a.Groups, call.tag) > distanceThreshold
    /\ \E i \in ArgMax(call.a.Groups, call.tag) :
           /\ \A j \in ArgMax(call.a.Groups, call.tag) : j <= i
           /\ call.tag \in Members(call.res.Groups[i])

\* Two accumulators hold the same groups, whatever the order of the groups
\* and of the members in a group.
GroupView(g) == [Centroid |-> g.Centroid, Members |-> Members(g)]

SameGroups(x, y) ==
    /\ Len(x.Groups) = Len(y.Groups)
    /\ {GroupView(g) : g \in Range(x.Groups)} =
           {GroupView(g) : g \in Range(y.Groups)}

\* C8: merging with an empty accumulator, on either side, gives the same
\* groups (same member sets, same centroids): for every live accumulator x,
\* MergeAccumulators(x, CreateAccumulator()) and
\* MergeAccumulators(CreateAccumulator(), x) hold the groups of x, and so
\* does every merge the engine ran with an empty side.
C8_MergeEmptyIdentity ==
    /\ \A i \in DOMAIN accs :
           /\ SameGroups(MergeAccumulators(accs[i], CreateAccumulator), accs[i])
           /\ SameGroups(MergeAccumulators(CreateAccumulator, accs[i]), accs[i])
    /\ (call.op = "Merge" /\ call.b = CreateAccumulator) =>
           SameGroups(call.res, call.a)
    /\ (call.op = "Merge" /\ call.a = CreateAccumulator) =>
           SameGroups(call.res, call.b)

\* The engine merged an accumulator of two groups into an empty one.
C8_Witness ==
    /\ call.op = "Merge"
    /\ call.a = CreateAccumulator
    /\ Len(call.b.Groups) >= 2
    /\ \E i \in DOMAIN accs : accs[i] = call.res

----------------------------------------------------------------------------
(* Properties of the counting stage, checked under SpecCount.              *)

\* C9: the count output for a tag equals the number of its occurrences in
\* the scanned input, however the occurrences were grouped into partial
\* sums and in whatever order the sums were combined, and is at least 1.
C9_CountingCorrect ==
    \A t \in TagNames :
        summed[t] # 0 => (summed[t] = scanned[t] /\ summed[t] >= 1)

\* A tag with three or more occurrences has its count output.
C9_Witness ==
    \E t \in TagNames : summed[t] >= 3 /\ scanned[t] >= 3

----------------------------------------------------------------------------
(* Properties of the filter and embedding stage, checked under SpecEmbed.  *)

\* C10: Predict is called for a tag iff its aggregate count is at least
\* tagCountThreshold: a tag below it causes no Predict call and no
\* HashtagCount element, a tag at or above it causes exactly one Predict
\* call each time ProcessElement runs on its element.
C10_ThresholdGatesEmbedding ==
    \A t \in TagNames :
        /\ summed[t] < tagCountThreshold =>
               /\ predictCalls[t] = 0
               /\ \A h \in hashtagCount : h.Hashtag # t
        /\ summed[t] >= tagCountThreshold => predictCalls[t] = attempts[t]

\* One element was dropped at count 4 without a call, and one at count 5
\* was processed twice with two calls.
C10_Witness ==
    \E t \in TagNames, u \in TagNames :
        /\ summed[t] = tagCountThreshold - 1
        /\ elem[t] = "done"
        /\ predictCalls[t] = 0
        /\ summed[u] = tagCountThreshold
        /\ attempts[u] = 2
        /\ predictCalls[u] = 2

----------------------------------------------------------------------------
(* Properties of the run's failures and of the persister and teardown.     *)

\* C11 (embedding failure isolation): when the embedding call for a tag
\* fails (the call returns an error, or a response with no predictions),
\* the run does not fail: that tag's element is left out and the run goes
\* on.  Checked under SpecEmbed, where ProcessElement returns the error to
\* the engine and beamx.Run then returns it to main.
C11_EmbeddingFailureIsolated ==
    \A t \in TagNames : elem[t] = "failed" => run # "failed"

\* The mass of a group, not by way of the sort: the sum of all the member
\* counts less the n smallest of them, n the number of members beyond 30.
RECURSIVE SumCounts(_, _)
SumCounts(hashtags, k) ==
    IF k = 0 THEN 0 ELSE hashtags[k].Count + SumCounts(hashtags, k - 1)

RECURSIVE BottomSum(_, _, _)
BottomSum(hashtags, rest, n) ==
    IF n = 0 \/ rest = {}
    THEN 0
    ELSE LET m == CHOOSE i \in rest :
                      \A j \in rest : hashtags[i].Count <= hashtags[j].Count
         IN  hashtags[m].Count + BottomSum(hashtags, rest \ {m}, n - 1)

Mass(g) ==
    SumCounts(g.Hashtags, Len(g.Hashtags))
        - BottomSum(g.Hashtags, DOMAIN g.Hashtags,
                    Len(g.Hashtags) - minInt(topTagsLimit, Len(g.Hashtags)))

\* The Topic records the current run created for group i.
TopicsOf(i) ==
    {k \in DOMAIN topics : topics[k].group = i /\ topics[k].run = runNo}

\* The count of the member of g with tag string h.
CountOf(g, h) ==
    LET j == CHOOSE k \in DOMAIN g.Hashtags : g.Hashtags[k].Hashtag = h
    IN  g.Hashtags[j].Count

\* tags lists min(30, |members|) distinct members of g of the greatest
\* counts, in non-increasing order of count.
TopTagsOf(g, tags) ==
    /\ Len(tags) = minInt(topTagsLimit, Len(g.Hashtags))
    /\ Range(tags) \subseteq GroupTags(g)
    /\ Cardinality(Range(tags)) = Len(tags)
    /\ \A a \in 1 .. Len(tags) - 1 :
           CountOf(g, tags[a]) >= CountOf(g, tags[a + 1])
    /\ \A h \in GroupTags(g) \ Range(tags) :
           CountOf(g, h) <= CountOf(g, tags[Len(tags)])

\* Group i has been emitted downstream (its members in any order).
Forwarded(i) ==
    \E g \in summarized : GroupTags(g) = GroupTags(finalized[i])

\* C12 (TopicPersister rule): for each finalized group the persister calls
\* Add, once, iff the sum of the counts of its min(30, |members|)
\* highest-count members is >= documentThreshold; the document's tags are
\* the tag strings of exactly those members in non-increasing count order
\* and the Topic is in the sink, once, when Add has returned; a group whose
\* mass is below the threshold causes no write and no error and is not
\* forwarded downstream, and a group is forwarded only once written.
C12_PersisterRule ==
    \A i \in DOMAIN finalized :
        LET g == finalized[i]
        IN  /\ summary[i] \in {"writing", "done", "failed"} =>
                   /\ Mass(g) >= documentThreshold
                   /\ Len(request[i].add) = 1
                   /\ TopTagsOf(g, request[i].add[1].tags)
            /\ summary[i] = "done" =>
                   /\ Cardinality(TopicsOf(i)) = 1
                   /\ \A k \in TopicsOf(i) :
                          topics[k].tags = request[i].add[1].tags
                   /\ Forwarded(i)
            /\ summary[i] = "skipped" =>
                   /\ Mass(g) < documentThreshold
                   /\ request[i] = NoRequest
            /\ summary[i] # "done" =>
                   /\ TopicsOf(i) = {}
                   /\ ~Forwarded(i)

\* A group of 31 members has been written with 30 tags, one of the two
\* members of the smallest count left out, and a singleton of count 9 has
\* been dropped.
C12_Witness ==
    \E i, j \in DOMAIN finalized :
        /\ Len(finalized[i].Hashtags) = topTagsLimit + 1
        /\ summary[i] = "done"
        /\ \E k \in TopicsOf(i) : Len(topics[k].tags) = topTagsLimit
        /\ Len(finalized[j].Hashtags) = 1
        /\ Mass(finalized[j]) = documentThreshold - 1
        /\ summary[j] = "skipped"

\* C13 (teardown barrier): once teardownFn has run (the call to the
\* summarization trigger made or about to be made), every group's element
\* has been through the persister and every Add call of the run has
\* returned: none is pending or in flight, whatever the order in which the
\* parallel workers ran.
C13_TeardownBarrier ==
    (teardown # "waiting" \/ posts # <<>>) =>
        \A i \in DOMAIN finalized :
            /\ summary[i] \in {"done", "skipped"}
            /\ summary[i] = "done" => TopicsOf(i) # {}

\* The trigger has been called after two groups were written.
C13_Witness ==
    /\ posts # <<>>
    /\ Cardinality({i \in DOMAIN finalized : summary[i] = "done"}) >= 2

\* C14 (exactly one notifier call per run): a run in which every
\* persistence write completed without error, and which ended without
\* error, has called the summarization trigger exactly once, whatever the
\* number of groups it persisted (zero, one or many).
C14_ExactlyOneNotifierCall ==
    run = "done" => Len(posts) = 1

\* The POST returned without error and with status 200.
Ok200(o) == o.stage = "resp" /\ o.StatusCode = 200

\* C15 (notifier failure fails the run): if the POST to the summarization
\* trigger returns an error or a status other than 200, teardownFn returns
\* an error and the run does not end successful; a run that called the
\* trigger ends successful only with status 200; and the Topic records the
\* run wrote are still in the sink after the failure.
C15_NotifierFailureFailsRun ==
    /\ (\E k \in DOMAIN posts : ~Ok200(posts[k])) =>
           teardown = "failed" /\ run # "done"
    /\ teardown = "failed" => run # "done"
    /\ (run = "done" /\ teardown # "waiting") =>
           Len(posts) = 1 /\ Ok200(posts[1])
    /\ teardown = "failed" =>
           \A i \in DOMAIN finalized :
               summary[i] = "done" => Cardinality(TopicsOf(i)) = 1

\* The run has failed on a POST that was answered with a status other than
\* 200, and a Topic it wrote is in the sink.
C15_Witness ==
    /\ run = "failed"
    /\ \E k \in DOMAIN posts : posts[k].stage = "resp" /\ ~Ok200(posts[k])
    /\ topics # <<>>

\* The scan ended on an error of the iterator: it returned the error, or it
\* stopped with documents of the corpus unread.
ScanErred ==
    \/ scan = "failed"
    \/ scan # "running" /\ \E t \in TagNames : raw[t] > 0

\* C16 (scan failure is fatal): if the corpus scan returns an I/O error at
\* any point of the iteration, the run does not end successful, and in that
\* run no tag is embedded, nothing is clustered, no Topic is written and
\* the summarization trigger is not called.
C16_ScanFailureFatal ==
    ScanErred =>
        /\ run # "done"
        /\ \A t \in TagNames : predictCalls[t] = 0
        /\ hashtagCount = {}
        /\ accs = <<>> /\ output = <<>>
        /\ \A i \in DOMAIN summary : summary[i] = "pending"
        /\ topics = <<>>
        /\ posts = <<>> /\ teardown = "waiting"

\* The run has failed on a scan error that came when one tag had already
\* been seen often enough to pass the filter and documents were unread.
C16_Witness ==
    /\ run = "failed"
    /\ scan = "failed"
    /\ \E t \in TagNames : summed[t] >= tagCountThreshold
    /\ \E t \in TagNames : raw[t] > 0

\* The run's embedded tags are exactly two, of counts c1 and c2 (in either
\* order), whose vectors have dot product d (in hundredths).
TwoTags(c1, c2, d) ==
    /\ EmbedComplete
    /\ \E a, b \in hashtagCount :
           /\ a.Hashtag # b.Hashtag
           /\ hashtagCount = {a, b}
           /\ a.Count = c1 /\ b.Count = c2
           /\ distance(a.Vector, b.Vector) = d

EmbeddedTags == {t.Hashtag : t \in hashtagCount}

\* C17 (end-to-end scenario 1): with two tags each occurring 6 times whose
\* embeddings have dot product 0.9, for every fold order and every
\* sharding and merge order the clusterer outputs exactly one group
\* containing both tags, of mass 12; once its Add call has returned exactly
\* one Topic is in the sink, with both tags and summarized = false; and the
\* notifier is then called once, the run ending successful only so.
C17_ScenarioOne ==
    TwoTags(6, 6, 90) =>
        /\ output # <<>> =>
               /\ Len(output[1]) = 1
               /\ GroupTags(output[1][1]) = EmbeddedTags
               /\ Mass(output[1][1]) = 12
               /\ summary[1] # "skipped"
        /\ \A i \in DOMAIN summary : summary[i] = "done" =>
               /\ Len(topics) = 1
               /\ Range(topics[1].tags) = EmbeddedTags
               /\ Len(topics[1].tags) = 2
               /\ topics[1].summarized = FALSE
        /\ Len(topics) <= 1
        /\ Len(posts) <= 1
        /\ posts # <<>> => Len(topics) = 1
        /\ run = "done" => Len(topics) = 1 /\ Len(posts) = 1

\* Scenario 1 has run to its end: one Topic written and the notifier
\* called once.
C17_Witness ==
    /\ TwoTags(6, 6, 90)
    /\ run = "done"
    /\ Len(topics) = 1
    /\ Len(posts) = 1

\* C18 (end-to-end scenario 2): two embedded tags whose pairwise similarity
\* is 0.5 end, for every fold order and sharding, in two singleton groups;
\* each singleton is persisted as its own Topic iff its own count is
\* >= documentThreshold, whatever becomes of the other.
C18_ScenarioTwo ==
    \A c1, c2 \in RunCounts :
        TwoTags(c1, c2, 50) =>
            /\ output # <<>> =>
                   /\ Len(output[1]) = 2
                   /\ \A i \in DOMAIN output[1] : Len(output[1][i].Hashtags) = 1
                   /\ UNION {GroupTags(output[1][i]) : i \in DOMAIN output[1]}
                          = EmbeddedTags
            /\ \A i \in DOMAIN summary :
                   LET own == finalized[i].Hashtags[1]
                   IN  /\ summary[i] # "pending" =>
                              (summary[i] = "skipped"
                                   <=> own.Count < documentThreshold)
                       /\ summary[i] = "done" =>
                              \E k \in TopicsOf(i) :
                                  topics[k].tags = <<own.Hashtag>>
                       /\ Cardinality(TopicsOf(i)) <= 1
            /\ Len(topics) <= Len(summary)

\* Scenario 2 has run to its end with one singleton of count 10 persisted
\* and the other, of count 6, dropped.
C18_Witness ==
    /\ TwoTags(6, 10, 50)
    /\ run = "done"
    /\ Len(finalized) = 2
    /\ \E i, j \in DOMAIN summary : summary[i] = "done" /\ summary[j] = "skipped"
    /\ Len(topics) = 1

\* C19 (Topic records are create-only and start unsummarized): every
\* record in the topics sink has summarized = false and between 1 and 30
\* tags, and every step of the pipeline leaves the records already in the
\* sink as they are, at most adding one newly created record after them:
\* none is updated, overwritten or deleted.
C19_CreateOnly ==
    /\ [](\A k \in DOMAIN topics :
              /\ topics[k].summarized = FALSE
              /\ Len(topics[k].tags) >= 1
              /\ Len(topics[k].tags) <= topTagsLimit)
    /\ [][/\ Len(topics') \in {Len(topics), Len(topics) + 1}
          /\ \A k \in DOMAIN topics : topics'[k] = topics[k]]_vars

\* A record of 30 tags has been created after a record of one tag.
C19_Witness ==
    \E j, k \in DOMAIN topics :
        /\ j < k
        /\ Len(topics[j].tags) = 1
        /\ Len(topics[k].tags) = topTagsLimit

\* C20 (idempotent retry): running the pipeline again over the same corpus,
\* with the same finalized groups, leaves the topics sink with the tag
\* lists of a single run: no group has more than one Topic record, the
\* later run adding none for a group an earlier run already persisted.
C20_IdempotentRetry ==
    \A j, k \in DOMAIN topics :
        topics[j].group = topics[k].group => j = k

----------------------------------------------------------------------------
(* Properties of the vectors, the filter and the combiner's partition.     *)

\* C21 (vector dimension invariant): every HashtagCount the embedding stage
\* emits has a vector of exactly dimensionality elements, for every
\* response Predict can return without error, a prediction whose values
\* list is missing, empty or of another length included.
C21_VectorDimension ==
    \A h \in hashtagCount : Len(h.Vector) = dimensionality

\* The tags of the input that pass the filter with threshold t.
Passing(t) == {tag \in TagNames : summed[tag] > 0 /\ Survives(summed[tag], t)}

\* C22 (threshold monotonicity): for every input and every pair of
\* thresholds t1 <= t2, the tags that pass the filter with t2 are a subset
\* of those that pass with t1; and the tags for which ProcessElement went
\* on to the embedding call are those that pass with tagCountThreshold.
C22_ThresholdMonotone ==
    /\ \A t1, t2 \in 0 .. MaxCount + 1 :
           t1 <= t2 => Passing(t2) \subseteq Passing(t1)
    /\ \A tag \in TagNames :
           attempts[tag] > 0 =>
               (predictCalls[tag] > 0 <=> tag \in Passing(tagCountThreshold))

\* Both tags have been through the filter: one passes with the threshold 5
\* and has been embedded, the other passes only with a smaller threshold.
C22_Witness ==
    \E tag, u \in TagNames :
        /\ elem[tag] = "done" /\ elem[u] = "done"
        /\ tag \in Passing(tagCountThreshold)
        /\ \E h \in hashtagCount : h.Hashtag = tag
        /\ u \notin Passing(tagCountThreshold)
        /\ u \in Passing(tagCountThreshold - 1)

\* The number of places (group, position) where tag x is a member in the
\* list of groups gs.
RECURSIVE MemberCount(_, _, _)
MemberCount(gs, x, i) ==
    IF i = 0
    THEN 0
    ELSE MemberCount(gs, x, i - 1)
             + Cardinality({j \in DOMAIN gs[i].Hashtags :
                                gs[i].Hashtags[j].Hashtag = x})

\* The same over every live accumulator, the first s of them.
RECURSIVE MemberCountAccs(_, _)
MemberCountAccs(x, s) ==
    IF s = 0
    THEN 0
    ELSE MemberCountAccs(x, s - 1)
             + MemberCount(accs[s].Groups, x, Len(accs[s].Groups))

\* C23 (partition under any merge tree): whatever the assignment of tags to
\* accumulators, the fold orders and the shape and order of the merges,
\* the groups partition the tags handed to the combiner: before
\* ExtractOutput each input tag is a member of exactly one group of one
\* live accumulator, once; in the extracted output each input tag is a
\* member of exactly one group, once; and no group holds a tag that was
\* not an input.
C23_Partition ==
    /\ output = <<>> =>
           \A x \in TagIds :
               MemberCountAccs(x, Len(accs)) = IF x <= emitted THEN 1 ELSE 0
    /\ output # <<>> =>
           /\ accs = <<>>
           /\ \A x \in TagIds :
                  MemberCount(output[1], x, Len(output[1]))
                      = IF x <= emitted THEN 1 ELSE 0
           /\ \A i \in DOMAIN output[1] : GroupTags(output[1][i]) \subseteq 1 .. emitted

\* Three tags folded into two accumulators, the accumulators merged, and
\* the output extracted with more than one group.
C23_Witness ==
    /\ output # <<>>
    /\ emitted = 3
    /\ call.op = "Merge"
    /\ call.a.Groups # <<>> /\ call.b.Groups # <<>>
    /\ Len(output[1]) >= 2

\* The embedded tags of the extracted output, as HashtagCount values.
OutputTags == UNION {Members(g) : g \in UNION {Range(o) : o \in Range(output)}}

\* C24 as stated (close tags share a group): for every input set and every
\* fold and merge order, any two embedded tags whose direct similarity
\* score is above distanceThreshold are members of the same output group.
C24_CloseTagsShareGroup ==
    output # <<>> =>
        \A x \in OutputTags, y \in OutputTags :
            distance(x.Vector, y.Vector) > distanceThreshold
                => Together(x.Hashtag, y.Hashtag)

\* C24 as the code has it (closeness is to a centroid, greedily): a
\* candidate folded by AddInput that scores above distanceThreshold against
\* the centroid of some group of the accumulator becomes a member of a
\* group whose centroid reaches the maximum score against it, so it shares
\* a group with that centroid tag; and in MergeAccumulators a group of b
\* whose centroid scores above distanceThreshold against the centroid of
\* some group of a, as a stands, is joined with a group of a whose centroid
\* reaches the maximum score.  Nothing is promised for two close tags of
\* which neither was such a best-scoring centroid for the other.
C24_CloseToCentroidShareGroup ==
    /\ call.op = "AddInput" =>
           LET a == call.a.Groups
               r == call.res.Groups
               tag == call.tag
           IN  (\E i \in DOMAIN a : Score(a[i], tag) > distanceThreshold) =>
                   \E i \in ArgMax(a, tag) :
                       /\ i \in DOMAIN r
                       /\ tag \in Members(r[i])
                       /\ a[i].Centroid \in Members(r[i])
    /\ call.op = "Merge" =>
           \A k \in DOMAIN call.b.Groups :
               LET pre == mergeLoop(call.a, call.b, k - 1).a
                   post == mergeLoop(call.a, call.b, k).a
                   g == call.b.Groups[k]
               IN  (\E i \in DOMAIN pre :
                        Score(pre[i], g.Centroid) > distanceThreshold) =>
                       \E i \in ArgMax(pre, g.Centroid) :
                           /\ i \in DOMAIN post
                           /\ Members(g) \subseteq Members(post[i])
                           /\ pre[i].Centroid \in Members(post[i])
                           /\ \E h \in Range(call.res.Groups) :
                                  Members(post[i]) \subseteq Members(h)

\* A candidate was folded into an accumulator of two groups, scored above
\* the threshold against the centroid of the second only, and the output
\* was extracted.
C24_Witness ==
    /\ call.op = "AddInput"
    /\ output # <<>>
    /\ Len(call.a.Groups) = 2
    /\ Score(call.a.Groups[1], call.tag) <= distanceThreshold
    /\ Score(call.a.Groups[2], call.tag) > distanceThreshold

\* The partition a list of groups makes of its tags.
Partition(groups) == {GroupTags(g) : g \in Range(groups)}

\* The orders in which the tags of the set ids can be folded.
Orders(ids) ==
    {s \in [1 .. Cardinality(ids) -> ids] :
         \A i, j \in DOMAIN s : i # j => s[i] # s[j]}

\* The accumulator after folding the first n tags of the order s into acc,
\* the tag of id x having the kind kinds[x].
RECURSIVE Fold(_, _, _, _)
Fold(acc, kinds, s, n) ==
    IF n = 0
    THEN acc
    ELSE AddInput(Fold(acc, kinds, s, n - 1),
                  [Hashtag |-> s[n], Count |-> kinds[s[n]].Count,
                   Vector |-> kinds[s[n]].Vector])

\* One shard's accumulator for the tags of ids, folded in the order s.
Shard(kinds, s) == Fold(CreateAccumulator, kinds, s, Len(s))

\* C25 (order dependence): there are inputs for which folding the same
\* embedded tags in a different order within one shard yields a different
\* final partition (AddInput is not commutative), there are two shard
\* accumulators whose merge in the other order yields a different
\* partition (MergeAccumulators is not commutative on group membership),
\* and there are three whose merge in the other bracketing yields a
\* different partition (it is not associative on group membership).  The
\* inputs are the tags the engine can hand to the combiner before the first
\* AddInput.
C25_OrderDependence ==
    emitted = 0 => \E kinds \in [TagIds -> TagKinds] :
        /\ \E t \in Orders(TagIds) :
               Partition(ExtractOutput(Shard(kinds, [i \in TagIds |-> i])))
                   # Partition(ExtractOutput(Shard(kinds, t)))
        /\ \E S \in SUBSET TagIds :
               \E s \in Orders(S), t \in Orders(TagIds \ S) :
                   LET a == Shard(kinds, s)
                       b == Shard(kinds, t)
                   IN  Partition(ExtractOutput(MergeAccumulators(a, b)))
                           # Partition(ExtractOutput(MergeAccumulators(b, a)))
        /\ LET x == Shard(kinds, <<1>>)
               y == Shard(kinds, <<2>>)
               z == Shard(kinds, <<3>>)
           IN  Partition(ExtractOutput(
                   MergeAccumulators(MergeAccumulators(x, y), z)))
                   # Partition(ExtractOutput(
                         MergeAccumulators(x, MergeAccumulators(y, z))))

\* The tag of the extracted output that has the id x.
OutputTag(x) == CHOOSE h \in OutputTags : h.Hashtag = x

\* An extracted output whose partition is not the one that folding the same
\* tags into a single shard in the order of their ids would have given.
C25_Witness ==
    /\ output # <<>>
    /\ emitted = 3
    /\ Partition(output[1])
           # Partition(ExtractOutput(
                 Shard([x \in 1 .. 3 |-> OutputTag(x)], <<1, 2, 3>>)))

\* C26 (empty states are valid, not errors), its last clause over the
\* vectors the embedder hands to the combiner: computing the similarity
\* between a centroid and a candidate never fails when either vector is
\* empty.  findClosest calls distance(centroid vector, candidate vector),
\* and any emitted tag can be a centroid and any other the candidate.
C26_EmptyVectorsSafe ==
    \A centroid \in hashtagCount, candidate \in hashtagCount :
        (centroid.Vector = <<>> \/ candidate.Vector = <<>>)
            => ~distancePanics(centroid.Vector, candidate.Vector)

\* The order worker i's sort left the members of group i in; for a group
\* that was not forwarded any order the sort can give.
SortedOf(i) ==
    IF request[i].emit # <<>>
    THEN request[i].emit[1].Hashtags
    ELSE CHOOSE s \in SortFunc(finalized[i].Hashtags) : TRUE

\* The documents one worker creates when it runs ProcessElement on the first
\* n groups one after the other, in order, for the groups whose
\* ProcessElement has returned without error.
RECURSIVE SequentialAdds(_)
SequentialAdds(n) ==
    IF n = 0
    THEN <<>>
    ELSE SequentialAdds(n - 1)
             \o (IF summary[n] \in {"done", "skipped"}
                 THEN SummaryProcessElement(finalized[n], SortedOf(n)).add
                 ELSE <<>>)

\* The document of a record of the sink, without the history fields.
DocOf(rec) == [summarized |-> rec.summarized, tags |-> rec.tags]

\* C27 (parallel persistence is race-free): with the groups processed by
\* parallel workers in any interleaving, the Topic records in the sink are,
\* as a multiset, the records a sequential execution over the same groups
\* creates: one record per group whose ProcessElement has returned from
\* Add, none lost, overwritten or doubled, each with the tags computed from
\* its own group alone.
C27_RaceFree ==
    LET seq == SequentialAdds(Len(finalized))
    IN  /\ Len(topics) = Len(seq)
        /\ \E p \in [DOMAIN seq -> DOMAIN topics] :
               /\ \A a, b \in DOMAIN seq : a # b => p[a] # p[b]
               /\ \A a \in DOMAIN seq : DocOf(topics[p[a]]) = seq[a]
        /\ \A k \in DOMAIN topics :
               /\ summary[topics[k].group] = "done"
               /\ Range(topics[k].tags) \subseteq GroupTags(finalized[topics[k].group])

\* Two workers were inside Add at once and the sink created the record of
\* the second group before the record of the first.
C27_Witness ==
    /\ Len(topics) = 2
    /\ topics[1].group = 2
    /\ topics[2].group = 1
    /\ SummaryComplete

\* Two tags are linked when their dot product is above distanceThreshold.
Linked(x, y) == distance(x.Vector, y.Vector) > distanceThreshold

\* The members of the set M reached from the set S over at most n links.
RECURSIVE Reach(_, _, _)
Reach(M, S, n) ==
    IF n = 0
    THEN S
    ELSE Reach(M, S \cup {y \in M : \E x \in S : Linked(x, y)}, n - 1)

\* Every member of g is reached from its first member by a chain of linked
\* members of g.
Connected(g) ==
    Reach(Members(g), {g.Hashtags[1]}, Len(g.Hashtags)) = Members(g)

\* C28 (groups are connected in the similarity graph): in every accumulator
\* reachable by AddInput and MergeAccumulators, and in the extracted
\* output, any two members of one group are joined by a chain of members of
\* that group in which each consecutive pair has a dot product above
\* distanceThreshold.
C28_GroupsConnected ==
    /\ \A s \in DOMAIN accs : \A g \in Range(accs[s].Groups) : Connected(g)
    /\ \A o \in Range(output) : \A g \in Range(o) : Connected(g)
    /\ \A g \in Range(call.res.Groups) : Connected(g)

\* A merge has made a group of three members two of which are not linked
\* directly: they are joined only through the third.
C28_Witness ==
    /\ call.op = "Merge"
    /\ \E s \in DOMAIN accs : \E g \in Range(accs[s].Groups) :
           /\ Len(g.Hashtags) = 3
           /\ \E x \in Members(g), y \in Members(g) : ~Linked(x, y)

\* Some Topic write of the run has returned an error.
WriteErred == \E i \in DOMAIN summary : summary[i] = "failed"

\* C29 (persistence failure aborts before notification): if any Topic write
\* returns an error, the run does not end successful and the summarization
\* trigger is not called in that run, neither before nor after the error;
\* the Topic records written earlier in the run stay in the sink.
C29_WriteFailureAborts ==
    WriteErred =>
        /\ run \in {"running", "failed"}
        /\ posts = <<>>
        /\ teardown = "waiting"
        /\ \A i \in DOMAIN finalized :
               summary[i] = "done" =>
                   \E k \in DOMAIN topics :
                       /\ topics[k].group = i
                       /\ topics[k].run = runNo
                       /\ topics[k].tags = request[i].add[1].tags

\* The run has failed on the write of the second group after the Topic of
\* the first group was created.
C29_Witness ==
    /\ run = "failed"
    /\ Len(finalized) = 2
    /\ summary[1] = "done"
    /\ summary[2] = "failed"
    /\ Len(topics) = 1

----------------------------------------------------------------------------
\* Properties of the API server's read of the sink.

\* Record k of the sink has one of the tags of the query.
Shares(k, query) ==
    \E a \in DOMAIN topics[k].tags, b \in DOMAIN query :
        topics[k].tags[a] = query[b]

\* The result r is record k of the sink, which is summarized, shares a tag
\* with the query and is the most recent record that does both.
ServesSummarized(r) ==
    /\ r.err = "nil"
    /\ r.id \in DOMAIN topics
    /\ r.topic = [Tags |-> topics[r.id].tags]
    /\ topics[r.id].summarized = TRUE
    /\ Shares(r.id, r.query)
    /\ \A k \in DOMAIN topics :
           (k > r.id /\ Shares(k, r.query)) => topics[k].summarized = FALSE

\* C30 as stated (unsummarized topics are never served): every call of
\* GetTopicByTags returns a record with summarized = true, the most recent
\* such record sharing a tag with the query, or the error 'topic not
\* found'; so a Topic created by the pipeline is not returned for any query
\* until some other process has set its summarized field.
C30_ServedOrNotFound ==
    [][served' # served =>
           \/ ServesSummarized(served')
           \/ served'.err = "topic not found" /\ served'.topic = EmptyTopic
      ]_vars

\* C30 as the code has it: every call of GetTopicByTags returns the most
\* recent record with summarized = true that shares a tag with the query;
\* or, when no such record exists, the empty Topic with the error 'topic
\* not found'; or, when the store's client or iterator returns an error, the
\* empty Topic with that error.  No call returns a record whose summarized
\* field is false.
C30_ServedSummarizedOrError ==
    [][served' # served =>
           \/ ServesSummarized(served')
           \/ /\ served'.err = "topic not found"
              /\ served'.topic = EmptyTopic
              /\ \A k \in DOMAIN topics :
                     Shares(k, served'.query) => topics[k].summarized = FALSE
           \/ /\ served'.err \in {"client", "iterator"}
              /\ served'.topic = EmptyTopic
              /\ served'.id = 0
      ]_vars

\* The older of two Topics of the run has been summarized and was served
\* for a query that names a tag of each, while the newer is unsummarized.
C30_Witness ==
    /\ served.err = "nil"
    /\ served.id = 1
    /\ Len(topics) = 2
    /\ Shares(2, served.query)
    /\ topics[2].summarized = FALSE
    /\ topics[1].summarized = TRUE

====
